---- MODULE Spec2Model ----
(***************************************************************************)
(* Model of astrbot_plugin_keyword_trigger: the KeywordTriggerPlugin       *)
(* message handler (src/main.py) and the EventFactory it calls             *)
(* (src/core/event_factory.py).                                            *)
(*                                                                         *)
(* Python strings are sequences of atoms.  An atom is one character, or a  *)
(* whole literal of the source ("command_trigger_", "GroupMessage", ...)   *)
(* that no concatenation of the other atoms of the alphabets spells, so    *)
(* that prefix and substring tests on atom sequences agree with the tests  *)
(* on the characters.  Python values that are not always strings are       *)
(* tagged records: None, PyS(string), PyI(integer).                        *)
(***************************************************************************)
EXTENDS Integers, Sequences, FiniteSets, TLC

VARIABLES
    keywords,             \* KeywordTriggerPlugin.keywords
    group_only,           \* KeywordTriggerPlugin.group_only
    triggered_event_ids,  \* KeywordTriggerPlugin.triggered_event_ids
    registry,             \* the host's platform registry behind context.get_platform_inst
    queue,                \* the host's event queue behind context.get_event_queue()
    inbox,                \* the inbound event the host is about to hand to on_message
    request,              \* the call of create_event a caller is about to make
    run,                  \* the last run of on_message: its event, locals and steps
    made,                 \* the last run of EventFactory.create_event: arguments, locals, result
    tally                 \* history: messages committed and handled, events put on the queue

vars == <<keywords, group_only, triggered_event_ids, registry, queue, inbox, request, run, made, tally>>

----------------------------------------------------------------------------
(* Bounds of the model *)

MaxTextLen == 3
MaxKeywords == 2
MaxOriginLen == 5
MaxClock == 1
MaxExternal == 2

----------------------------------------------------------------------------
(* Python values *)

None == [kind |-> "none"]
PyS(s) == [kind |-> "str", v |-> s]
PyI(n) == [kind |-> "int", v |-> n]
Absent == [kind |-> "absent"]

Digit(d) ==
    CASE d = 0 -> "0" [] d = 1 -> "1" [] d = 2 -> "2" [] d = 3 -> "3" [] d = 4 -> "4"
      [] d = 5 -> "5" [] d = 6 -> "6" [] d = 7 -> "7" [] d = 8 -> "8" [] d = 9 -> "9"

RECURSIVE IntToStr(_)
IntToStr(n) == IF n < 10 THEN <<Digit(n)>> ELSE IntToStr(n \div 10) \o <<Digit(n % 10)>>

\* str(x)
PyStr(x) ==
    CASE x.kind = "str" -> x.v
      [] x.kind = "int" -> IntToStr(x.v)
      [] x.kind = "none" -> <<"None">>

\* bool(x), as in `if x` and `x if x else ...`
Truthy(x) ==
    CASE x.kind = "str" -> Len(x.v) > 0
      [] x.kind = "int" -> x.v # 0
      [] x.kind = "none" -> FALSE

\* hasattr(obj, name) on an object modelled as a function from attribute names
HasAttr(obj, name) == name \in DOMAIN obj

----------------------------------------------------------------------------
(* Python string operations *)

\* s.startswith(p)
StartsWith(s, p) == Len(p) <= Len(s) /\ SubSeq(s, 1, Len(p)) = p

\* p in s
Contains(s, p) == \E i \in 0..(Len(s) - Len(p)) : SubSeq(s, i + 1, i + Len(p)) = p

RECURSIVE LStrip(_)
LStrip(s) == IF s # <<>> /\ Head(s) = " " THEN LStrip(Tail(s)) ELSE s

RECURSIVE RStrip(_)
RStrip(s) == IF s # <<>> /\ s[Len(s)] = " " THEN RStrip(SubSeq(s, 1, Len(s) - 1)) ELSE s

\* s.strip()
Strip(s) == RStrip(LStrip(s))

\* s.split(sep) for a one-atom separator: always at least one part
RECURSIVE Split(_, _)
Split(s, sep) ==
    IF \A i \in 1..Len(s) : s[i] # sep
    THEN <<s>>
    ELSE LET i == CHOOSE k \in 1..Len(s) : s[k] = sep /\ \A j \in 1..(k - 1) : s[j] # sep
         IN  <<SubSeq(s, 1, i - 1)>> \o Split(SubSeq(s, i + 1, Len(s)), sep)

\* sep.join(parts)
RECURSIVE Join(_, _)
Join(parts, sep) ==
    IF parts = <<>> THEN <<>>
    ELSE IF Len(parts) = 1 THEN parts[1]
    ELSE parts[1] \o <<sep>> \o Join(Tail(parts), sep)

\* all sequences over alphabet of length at most n
SeqsUpTo(alphabet, n) == UNION {[1..k -> alphabet] : k \in 0..n}

----------------------------------------------------------------------------
(* EventFactory (src/core/event_factory.py) *)

\* MessageType members and their .value
GROUP_MESSAGE == "GROUP_MESSAGE"
FRIEND_MESSAGE == "FRIEND_MESSAGE"
MessageTypeValue(t) == IF t = GROUP_MESSAGE THEN <<"GroupMessage">> ELSE <<"FriendMessage">>

\* creator_name or DEFAULT_NAME, where the atom "DEFAULT_NAME" stands for the
\* two-character default display name literal of the source
OrDefaultName(x) == IF Truthy(x) THEN x.v ELSE <<"DEFAULT_NAME">>

\* context.get_platform_inst(platform_id): an instance, None, or an exception.
\* Keys the registry does not hold resolve to None.
get_platform_inst(reg, platform_id) ==
    IF platform_id \in DOMAIN reg THEN reg[platform_id] ELSE None

\* lines 15-27 without the try and the truth test: whatever the host's lookup
\* does is what the caller gets
GetPlatformInstanceUnguarded(reg, platform_id) == get_platform_inst(reg, platform_id)

\* lines 15-27
_get_platform_instance(reg, platform_id) ==
    LET platform_inst == get_platform_inst(reg, platform_id)
    IN  IF platform_inst.kind = "raise" THEN None
        ELSE IF platform_inst.kind = "platform" THEN platform_inst
        ELSE None

\* The parse of lines 32-48 with two parts accepted at line 39 (the conversation
\* id is then what follows the second part, if anything)
ParseOriginTwoParts(unified_msg_origin) ==
    LET unknown == [platform_id |-> <<"unknown">>, session_id |-> <<"unknown">>,
                    message_type |-> FRIEND_MESSAGE]
    IN  IF Contains(unified_msg_origin, <<":">>)
        THEN LET parts == Split(unified_msg_origin, ":")
             IN  IF Len(parts) >= 2
                 THEN [platform_id |-> parts[1],
                       session_id |-> Join(SubSeq(parts, 3, Len(parts)), ":"),
                       message_type |->
                           IF Contains(parts[2], <<"GroupMessage">>) THEN GROUP_MESSAGE
                           ELSE IF Contains(parts[2], <<"FriendMessage">>) THEN FRIEND_MESSAGE
                           ELSE unknown.message_type]
                 ELSE unknown
        ELSE unknown

\* The parse of lines 32-48 with the third part alone taken at line 43
ParseOriginThirdPart(unified_msg_origin) ==
    LET unknown == [platform_id |-> <<"unknown">>, session_id |-> <<"unknown">>,
                    message_type |-> FRIEND_MESSAGE]
    IN  IF Contains(unified_msg_origin, <<":">>)
        THEN LET parts == Split(unified_msg_origin, ":")
             IN  IF Len(parts) >= 3
                 THEN [platform_id |-> parts[1],
                       session_id |-> parts[3],
                       message_type |->
                           IF Contains(parts[2], <<"GroupMessage">>) THEN GROUP_MESSAGE
                           ELSE IF Contains(parts[2], <<"FriendMessage">>) THEN FRIEND_MESSAGE
                           ELSE unknown.message_type]
                 ELSE unknown
        ELSE unknown

\* lines 32-48 of create_event: the locals platform_id, session_id, message_type
ParseOrigin(unified_msg_origin) ==
    LET unknown == [platform_id |-> <<"unknown">>, session_id |-> <<"unknown">>,
                    message_type |-> FRIEND_MESSAGE]
    IN  IF Contains(unified_msg_origin, <<":">>)
        THEN LET parts == Split(unified_msg_origin, ":")
             IN  IF Len(parts) >= 3
                 THEN [platform_id |-> parts[1],
                       session_id |-> Join(SubSeq(parts, 3, Len(parts)), ":"),
                       message_type |->
                           IF Contains(parts[2], <<"GroupMessage">>) THEN GROUP_MESSAGE
                           ELSE IF Contains(parts[2], <<"FriendMessage">>) THEN FRIEND_MESSAGE
                           ELSE unknown.message_type]
                 ELSE unknown
        ELSE unknown

platform_mapping ==
    [p \in {<<"aiocqhttp">>, <<"qq_official">>, <<"telegram">>, <<"discord">>, <<"slack">>,
            <<"lark">>, <<"wechatpadpro">>, <<"webchat">>, <<"dingtalk">>} |-> p]

_get_platform_type_from_origin(unified_msg_origin) ==
    IF Contains(unified_msg_origin, <<":">>)
    THEN LET platform_part == Split(unified_msg_origin, ":")[1]
         IN  IF platform_part \in DOMAIN platform_mapping
             THEN platform_mapping[platform_part]
             ELSE platform_part
    ELSE <<"unknown">>

\* A platform instance is [kind |-> "platform", meta, attrs]: meta is Absent (no
\* meta attribute), [kind |-> "raise"] (meta() raises) or [kind |-> "meta", name]
\* with name Absent or a string; attrs maps the names of its public non-callable
\* attributes to their values.
_get_platform_type_from_instance(platform_instance, unified_msg_origin) ==
    IF platform_instance.kind = "platform"
       /\ platform_instance.meta.kind = "meta"
       /\ platform_instance.meta.name.kind # "absent"
    THEN platform_instance.meta.name.v
    ELSE _get_platform_type_from_origin(unified_msg_origin)

_get_real_self_id_sync(platform_instance) ==
    IF platform_instance.kind # "platform" THEN <<"123456789">>
    ELSE IF HasAttr(platform_instance.attrs, "client_self_id")
            /\ platform_instance.attrs["client_self_id"].kind \in {"str", "int"}
            /\ Truthy(platform_instance.attrs["client_self_id"])
         THEN PyStr(platform_instance.attrs["client_self_id"])
         ELSE <<"123456789">>

Plain(text) == [comp |-> "Plain", text |-> text]
At(qq) == [comp |-> "At", qq |-> qq]
Image == [comp |-> "Image"]

\* line 139 with the underscore of the prefix left out
SyntheticMessageIdNoUnderscore(now) == <<"command_trigger">> \o IntToStr(now)

\* line 139: "command_trigger_" + str(int(time.time())), now being int(time.time())
SyntheticMessageId(now) == <<"command_trigger_">> \o IntToStr(now)

\* lines 148-152 without the split at the session-isolation separator
GroupIdWhole(session_id) == session_id

\* lines 148-152: the group id taken from the session id
GroupIdOf(session_id) ==
    IF Contains(session_id, <<"_">>) THEN Split(session_id, "_")[1] ELSE session_id

\* now is int(time.time())
_create_message_object(command, session_id, message_type, creator_id, creator_name, platform_instance, now) ==
    LET real_self_id == _get_real_self_id_sync(platform_instance)
        sender == [user_id |-> creator_id, nickname |-> OrDefaultName(creator_name)]
        msg == [message_str |-> command,
                session_id |-> session_id,
                type |-> message_type,
                self_id |-> real_self_id,
                message_id |-> SyntheticMessageId(now),
                sender |-> sender,
                message |-> <<Plain(command)>>]
        raw == [message |-> command,
                message_type |-> IF message_type = GROUP_MESSAGE THEN "group" ELSE "private",
                sender |-> sender,
                self_id |-> real_self_id]
    IN  IF message_type = GROUP_MESSAGE
        THEN LET group_id == GroupIdOf(session_id)
             IN  [raw_message |-> [group_id |-> group_id] @@ raw, group_id |-> group_id] @@ msg
        ELSE [raw_message |-> raw] @@ msg

\* PlatformMetadata(name, description, id)
PlatformMetadata(name, description, id) == [name |-> name, description |-> description, id |-> id]

\* The arguments every event constructor of the host takes
EventCtor(cls, command, msg, meta, session_id) ==
    [cls |-> cls, message_str |-> command, message_obj |-> msg, platform_meta |-> meta,
     session_id |-> session_id]

_create_base_event(reg, command, msg, meta, session_id) ==
    LET event == [unified_msg_origin |->
                      meta.name \o <<":">> \o MessageTypeValue(msg.type) \o <<":">> \o session_id,
                  is_wake |-> TRUE,
                  is_at_or_wake_command |-> TRUE]
                 @@ EventCtor("AstrMessageEvent", command, msg, meta, session_id)
        platform_instance == _get_platform_instance(reg, meta.id)
    IN  IF platform_instance.kind = "platform"
        THEN platform_instance.attrs @@ [platform_instance |-> platform_instance] @@ event
        ELSE event

\* The shape the platform-specific builders share: look the platform up under
\* key, require the capability attribute cap, import and construct cls with the
\* handle passed as keyword kw; anything else falls back to the base event.
\* ctor is "ok" when the import and the constructor succeed, "raises" otherwise.
VariantEvent(reg, cls, key, cap, kw, command, msg, meta, session_id, ctor) ==
    LET platform == _get_platform_instance(reg, key)
    IN  IF platform.kind = "platform" /\ HasAttr(platform.attrs, cap) /\ ctor = "ok"
        THEN [k \in {kw} |-> platform.attrs[cap]]
             @@ EventCtor(cls, command, msg, meta, session_id)
        ELSE _create_base_event(reg, command, msg, meta, session_id)

_create_aiocqhttp_event(reg, command, msg, meta, session_id, ctor) ==
    LET platform == _get_platform_instance(reg, meta.id)
    IN  IF platform.kind = "platform" /\ HasAttr(platform.attrs, "bot") /\ ctor = "ok"
        THEN [platform_instance |-> platform, bot |-> platform.attrs["bot"]]
             @@ EventCtor("AiocqhttpMessageEvent", command, msg, meta, session_id)
        ELSE _create_base_event(reg, command, msg, meta, session_id)

_create_qq_official_event(reg, command, msg, meta, session_id, ctor) ==
    VariantEvent(reg, "QQOfficialMessageEvent", <<"qq_official">>, "client", "bot",
                 command, msg, meta, session_id, ctor)

_create_telegram_event(reg, command, msg, meta, session_id, ctor) ==
    VariantEvent(reg, "TelegramPlatformEvent", <<"telegram">>, "client", "client",
                 command, msg, meta, session_id, ctor)

_create_discord_event(reg, command, msg, meta, session_id, ctor) ==
    VariantEvent(reg, "DiscordPlatformEvent", <<"discord">>, "client", "client",
                 command, msg, meta, session_id, ctor)

_create_slack_event(reg, command, msg, meta, session_id, ctor) ==
    VariantEvent(reg, "SlackMessageEvent", <<"slack">>, "web_client", "web_client",
                 command, msg, meta, session_id, ctor)

_create_lark_event(reg, command, msg, meta, session_id, ctor) ==
    VariantEvent(reg, "LarkMessageEvent", <<"lark">>, "bot", "bot",
                 command, msg, meta, session_id, ctor)

_create_wechatpadpro_event(reg, command, msg, meta, session_id, ctor) ==
    LET platform == _get_platform_instance(reg, <<"wechatpadpro">>)
    IN  IF platform.kind = "platform" /\ ctor = "ok"
        THEN [adapter |-> platform]
             @@ EventCtor("WeChatPadProMessageEvent", command, msg, meta, session_id)
        ELSE _create_base_event(reg, command, msg, meta, session_id)

_create_webchat_event(reg, command, msg, meta, session_id, ctor) ==
    IF ctor = "ok"
    THEN EventCtor("WebChatMessageEvent", command, msg, meta, session_id)
    ELSE _create_base_event(reg, command, msg, meta, session_id)

_create_dingtalk_event(reg, command, msg, meta, session_id, ctor) ==
    VariantEvent(reg, "DingtalkMessageEvent", <<"dingtalk">>, "client", "client",
                 command, msg, meta, session_id, ctor)

_create_platform_specific_event(reg, platform_name, command, msg, meta, session_id, ctor) ==
    CASE platform_name = <<"aiocqhttp">> ->
             _create_aiocqhttp_event(reg, command, msg, meta, session_id, ctor)
      [] platform_name = <<"qq_official">> ->
             _create_qq_official_event(reg, command, msg, meta, session_id, ctor)
      [] platform_name = <<"telegram">> ->
             _create_telegram_event(reg, command, msg, meta, session_id, ctor)
      [] platform_name = <<"discord">> ->
             _create_discord_event(reg, command, msg, meta, session_id, ctor)
      [] platform_name = <<"slack">> ->
             _create_slack_event(reg, command, msg, meta, session_id, ctor)
      [] platform_name = <<"lark">> ->
             _create_lark_event(reg, command, msg, meta, session_id, ctor)
      [] platform_name = <<"wechatpadpro">> ->
             _create_wechatpadpro_event(reg, command, msg, meta, session_id, ctor)
      [] platform_name = <<"webchat">> ->
             _create_webchat_event(reg, command, msg, meta, session_id, ctor)
      [] platform_name = <<"dingtalk">> ->
             _create_dingtalk_event(reg, command, msg, meta, session_id, ctor)
      [] OTHER -> _create_base_event(reg, command, msg, meta, session_id)

\* The accessors create_event installs on the event (lines 68-70); an accessor is
\* modelled by the value it returns.
OverrideAccessors(event, creator_id, creator_name) ==
    [is_admin |-> TRUE,
     get_sender_id |-> creator_id,
     get_sender_name |-> OrDefaultName(creator_name)] @@ event

\* create_event: its locals and the event it returns
create_event(reg, unified_msg_origin, command, creator_id, creator_name, now, ctor) ==
    LET origin == ParseOrigin(unified_msg_origin)
        platform_instance == _get_platform_instance(reg, origin.platform_id)
        platform_type == _get_platform_type_from_instance(platform_instance, unified_msg_origin)
        msg == _create_message_object(command, origin.session_id, origin.message_type,
                                      creator_id, creator_name, platform_instance, now)
        meta == PlatformMetadata(platform_type, <<"command_trigger">>, origin.platform_id)
        event == _create_platform_specific_event(reg, platform_type, command, msg, meta,
                                                 origin.session_id, ctor)
    IN  [platform_id |-> origin.platform_id,
         session_id |-> origin.session_id,
         message_type |-> origin.message_type,
         platform_instance |-> platform_instance,
         platform_type |-> platform_type,
         msg |-> msg,
         meta |-> meta,
         built |-> event,
         event |-> OverrideAccessors(event, creator_id, creator_name)]

\* The parameters of create_event (line 29) and those among them with no default
create_event_params == {"unified_msg_origin", "command", "creator_id", "creator_name"}
create_event_required == {"unified_msg_origin", "command", "creator_id"}

\* Python binds a call by keyword iff every keyword names a parameter and every
\* parameter without a default is given; otherwise the call raises TypeError
\* before the body runs.
Binds(params, required, kwargs) == kwargs \subseteq params /\ required \subseteq kwargs

----------------------------------------------------------------------------
(* KeywordTriggerPlugin (src/main.py) *)

\* lines 48-57 without the test that the stripped item is non-empty
ParseKeywordsKeepsBlank(keywords_config) ==
    {Strip(keywords_config[i].v) :
        i \in {j \in 1..Len(keywords_config) : keywords_config[j].kind = "str"}}

\* config.get("keywords", []) is a sequence of items, strings or not
_parse_keywords(keywords_config) ==
    {Strip(keywords_config[i].v) :
        i \in {j \in 1..Len(keywords_config) :
                  /\ keywords_config[j].kind = "str"
                  /\ Strip(keywords_config[j].v) # <<>>}}

\* An inbound event is [message_obj, message_str, unified_msg_origin]; message_obj
\* maps the attributes the adapter has set (message_id, group_id, message) to
\* their values.  The event's methods are the environment's answers.
_get_group_id(event) ==
    IF HasAttr(event, "message_obj") /\ HasAttr(event.message_obj, "group_id")
    THEN IF Truthy(event.message_obj["group_id"])
         THEN PyStr(event.message_obj["group_id"])
         ELSE <<>>
    ELSE <<>>

_get_message_id(event) ==
    IF HasAttr(event, "message_obj") /\ HasAttr(event.message_obj, "message_id")
    THEN IF Truthy(event.message_obj["message_id"])
         THEN PyStr(event.message_obj["message_id"])
         ELSE <<>>
    ELSE <<>>

_get_plain_text(event) ==
    LET chain == IF HasAttr(event, "message_obj") /\ HasAttr(event.message_obj, "message")
                 THEN event.message_obj["message"]
                 ELSE <<>>
        plains == {i \in 1..Len(chain) : chain[i].comp = "Plain"}
    IN  IF plains # {}
        THEN Strip(chain[CHOOSE i \in plains : \A j \in plains : i <= j].text)
        ELSE IF Truthy(event.message_str) THEN Strip(event.message_str.v) ELSE <<>>

RECURSIVE OnlyAt(_)
OnlyAt(chain) ==
    IF chain = <<>> THEN <<>>
    ELSE IF Head(chain).comp = "At" THEN <<Head(chain)>> \o OnlyAt(Tail(chain))
    ELSE OnlyAt(Tail(chain))

_extract_non_text_components(event) ==
    IF HasAttr(event, "message_obj") /\ HasAttr(event.message_obj, "message")
    THEN OnlyAt(event.message_obj["message"])
    ELSE <<>>

\* The loop of lines 135-140 without the length test of line 139: the last
\* keyword visited that is a prefix wins
RECURSIVE MatchLoopLastWins(_, _, _)
MatchLoopLastWins(order, text, matched_keyword) ==
    IF order = <<>> THEN matched_keyword
    ELSE LET keyword == Head(order)
         IN  IF text = keyword \/ StartsWith(text, keyword)
             THEN MatchLoopLastWins(Tail(order), text, PyS(keyword))
             ELSE MatchLoopLastWins(Tail(order), text, matched_keyword)

\* lines 135-140: the loop over self.keywords, visited in the order `order`
RECURSIVE MatchLoop(_, _, _)
MatchLoop(order, text, matched_keyword) ==
    IF order = <<>> THEN matched_keyword
    ELSE LET keyword == Head(order)
         IN  IF (text = keyword \/ StartsWith(text, keyword))
                /\ (matched_keyword = None \/ Len(keyword) > Len(matched_keyword.v))
             THEN MatchLoop(Tail(order), text, PyS(keyword))
             ELSE MatchLoop(Tail(order), text, matched_keyword)

\* lines 144-145 with the suffix stripped of its surrounding blanks
NewCommandStripped(text, matched_keyword) ==
    LET suffix == Strip(SubSeq(text, Len(matched_keyword) + 1, Len(text)))
    IN  <<"/">> \o matched_keyword \o suffix

\* lines 144-145
NewCommand(text, matched_keyword) ==
    LET suffix == SubSeq(text, Len(matched_keyword) + 1, Len(text))
    IN  <<"/">> \o matched_keyword \o suffix

\* The record of a run of on_message that has not got past its guards
Idle ==
    [event |-> None, steps |-> <<>>, outcome |-> "idle", text |-> <<>>,
     matched_keyword |-> None, new_command |-> None, original_components |-> <<>>,
     is_admin |-> FALSE, kwargs |-> {}, new_event |-> None, stopped |-> FALSE,
     error |-> None, escaped |-> None]

\* line 114, and the same test with the prefix compared for equality
IsTriggeredIdExact(message_id) == message_id = <<"command_trigger_">>
IsTriggeredId(message_id) == StartsWith(message_id, <<"command_trigger_">>)

\* line 124, and the same test with the "/" case left out
IsCommandTextHashOnly(text) == StartsWith(text, <<"#">>)
IsCommandText(text) == StartsWith(text, <<"/">>) \/ StartsWith(text, <<"#">>)

\* lines 129-132: the message is dropped for want of a group; and the same test
\* with the flag ignored
LacksGroupAlways(only_group, event) == FALSE
LacksGroup(only_group, event) == only_group /\ _get_group_id(event) = <<>>

\* lines 112-132: the guards before matching
Guards(event, only_group) ==
    LET message_id == _get_message_id(event)
        text == _get_plain_text(event)
        r0 == [Idle EXCEPT !.event = event, !.steps = <<"_get_message_id">>]
        r1 == [r0 EXCEPT !.steps = @ \o <<"_get_plain_text">>, !.text = text]
        r2 == [r1 EXCEPT !.steps = @ \o (IF only_group THEN <<"_get_group_id">> ELSE <<>>)]
    IN  IF IsTriggeredId(message_id)
        THEN [r0 EXCEPT !.outcome = "skip_synthetic"]
        ELSE IF text = <<>>
        THEN [r1 EXCEPT !.outcome = "skip_empty"]
        ELSE IF IsCommandText(text)
        THEN [r1 EXCEPT !.outcome = "skip_command"]
        ELSE IF LacksGroup(only_group, event)
        THEN [r2 EXCEPT !.outcome = "skip_group"]
        ELSE [r2 EXCEPT !.outcome = "pass"]

\* lines 134-142: the keyword loop and the test of its result
Matching(r, order) ==
    LET matched_keyword == MatchLoop(order, r.text, None)
    IN  IF Truthy(matched_keyword)
        THEN [r EXCEPT !.steps = @ \o <<"match">>, !.matched_keyword = matched_keyword,
                       !.outcome = "matched"]
        ELSE [r EXCEPT !.steps = @ \o <<"match">>, !.outcome = "no_match"]

\* The keywords main.py passes to create_event (lines 167-174)
call_kwargs ==
    {"unified_msg_origin", "command", "creator_id", "creator_name",
     "original_components", "is_admin"}

\* is_admin() raises what line 154 does not catch
Escapes(admin) == admin.kind = "raise" /\ admin.exc \notin {"AttributeError", "TypeError"}

\* lines 184-185 followed by a second attempt at the call that failed
AfterFailureRetries(r, exc) ==
    [r EXCEPT !.outcome = "failed", !.error = PyS(<<exc>>),
              !.steps = @ \o <<"logger.error", "create_event">>]

\* lines 184-185 with stop_event moved out of the try, so that it runs after the
\* except branch too
AfterFailureStops(r, exc) ==
    [r EXCEPT !.outcome = "failed", !.error = PyS(<<exc>>), !.stopped = TRUE,
              !.steps = @ \o <<"logger.error", "stop_event">>]

\* lines 184-185: the except branch logs the exception and the handler returns
AfterFailure(r, exc) ==
    [r EXCEPT !.outcome = "failed", !.error = PyS(<<exc>>),
              !.steps = @ \o <<"logger.error">>]

\* lines 143-185: the dispatch of a matched message.  admin, sid, sname and put
\* are the answers of event.is_admin(), event.get_sender_id(),
\* event.get_sender_name() and put_nowait: [kind |-> "ret", v] or
\* [kind |-> "raise", exc]; sname is Absent when the event has no get_sender_name.
Dispatch(r, reg, admin, sid, sname, put, now, ctor) ==
    LET new_command == NewCommand(r.text, r.matched_keyword.v)
        original_components == _extract_non_text_components(r.event)
        is_admin == IF admin.kind = "ret" THEN admin.v ELSE FALSE
        r2 == [r EXCEPT !.new_command = PyS(new_command),
                        !.original_components = original_components,
                        !.is_admin = is_admin,
                        !.steps = @ \o <<"_extract_non_text_components", "is_admin">>]
        sender_name == IF sname.kind = "absent" THEN PyS(<<"DEFAULT_NAME">>) ELSE sname.v
        r3 == [r2 EXCEPT !.steps = @ \o <<"get_sender_id">>]
        r4 == [r3 EXCEPT !.steps = @ \o (IF sname.kind = "absent" THEN <<>>
                                         ELSE <<"get_sender_name">>)]
        r5 == [r4 EXCEPT !.steps = @ \o <<"create_event">>, !.kwargs = call_kwargs]
    IN  IF Escapes(admin)
        THEN [r2 EXCEPT !.outcome = "escaped", !.escaped = PyS(<<admin.exc>>)]
        ELSE IF sid.kind = "raise"
        THEN AfterFailure(r3, sid.exc)
        ELSE IF sname.kind = "raise"
        THEN AfterFailure(r4, sname.exc)
        ELSE IF ~Binds(create_event_params, create_event_required, call_kwargs)
        THEN AfterFailure(r5, "TypeError")
        ELSE LET new_event == create_event(reg, r.event.unified_msg_origin, new_command,
                                           PyStr(sid.v), sender_name, now, ctor).event
                 r6 == [r5 EXCEPT !.new_event = new_event, !.steps = @ \o <<"put_nowait">>]
             IN  IF put.kind = "raise"
                 THEN AfterFailure(r6, put.exc)
                 ELSE [r6 EXCEPT !.outcome = "dispatched", !.stopped = TRUE,
                                 !.steps = @ \o <<"stop_event">>]

----------------------------------------------------------------------------
(* The environment: configurations, inbound events, collaborators' answers *)

Ret(v) == [kind |-> "ret", v |-> v]
Raise(exc) == [kind |-> "raise", exc |-> exc]

\* Items a user may write in the keywords list: plain, padded, blank, command-like
\* and a non-string
KeywordItems ==
    {PyS(<<"a">>), PyS(<<" ", "a", "b", " ">>), PyS(<<"/", "a">>), PyS(<<" ">>), PyI(7)}

KeywordConfigs == SeqsUpTo(KeywordItems, MaxKeywords)

TextAlphabet == {"/", "#", " ", "a", "b"}
Texts == SeqsUpTo(TextAlphabet, MaxTextLen)

MessageIds == {Absent, PyI(7), PyS(<<"command_trigger_", "7">>)}
GroupIds == {Absent, PyS(<<>>), PyI(42)}

\* The message chains an adapter builds around the text t; present is FALSE when
\* the adapter sets no message attribute
Chains(t) ==
    {[present |-> FALSE, chain |-> <<>>],
     [present |-> TRUE, chain |-> <<Image, At(1), Plain(t), At(2)>>]}

MessageObj(message_id, group_id, c) ==
    LET names == {n \in {"message_id", "group_id", "message"} :
                     \/ n = "message_id" /\ message_id # Absent
                     \/ n = "group_id" /\ group_id # Absent
                     \/ n = "message" /\ c.present}
    IN  [n \in names |-> CASE n = "message_id" -> message_id
                           [] n = "group_id" -> group_id
                           [] n = "message" -> c.chain]

\* The origin token the host gives an inbound event of platform bot1
InboundOrigin(group_id) ==
    IF group_id # Absent /\ Truthy(group_id)
    THEN <<"bot1", ":", "GroupMessage", ":">> \o PyStr(group_id)
    ELSE <<"bot1", ":", "FriendMessage", ":", "u1">>

Inbound(message_id, group_id, t, c) ==
    [message_obj |-> MessageObj(message_id, group_id, c),
     message_str |-> PyS(t),
     unified_msg_origin |-> InboundOrigin(group_id)]

InboundEvents ==
    UNION {{Inbound(x[1], x[2], x[3], c) : c \in Chains(x[3])} :
              x \in MessageIds \X GroupIds \X Texts}

AdminAnswers == {Ret(TRUE), Ret(FALSE), Raise("AttributeError"), Raise("RuntimeError")}
SenderIdAnswers == {Ret(PyI(42)), Raise("RuntimeError")}
SenderNameAnswers == {Absent, Ret(PyS(<<"Al">>))}
PutAnswers == {Ret(None), Raise("QueueFull")}
Clock == 0..MaxClock
CtorAnswers == {"ok", "raises"}

\* The orders in which a loop may visit the set S
IterationOrders(S) ==
    {order \in [1..Cardinality(S) -> S] :
        \A i, j \in 1..Cardinality(S) : i # j => order[i] # order[j]}

----------------------------------------------------------------------------
(* The plugin under the host's dispatch loop *)

EmptyRegistry == [k \in {} |-> None]

Platform(meta, attrs) == [kind |-> "platform", meta |-> meta, attrs |-> attrs]
Meta(name) == [kind |-> "meta", name |-> name]
NoAttrs == [a \in {} |-> None]

\* One platform, named bot1 by the user, of type aiocqhttp
HomeRegistry ==
    [k \in {<<"bot1">>} |->
        Platform(Meta(PyS(<<"aiocqhttp">>)), [bot |-> "bot1.bot", client_self_id |-> PyI(10)])]

NotMade == [called |-> FALSE]

\* Nothing committed, handled, enqueued or resubmitted yet
NoTally == [committed |-> 0, external |-> 0, enqueued |-> 0, resubmitted |-> 0]

\* The event was built by EventFactory (it has an event class of the host), not
\* received from an adapter
IsSynthesized(event) == "cls" \in DOMAIN event

\* __init__: the plugin as constructed from a configuration
Init ==
    /\ keywords \in {_parse_keywords(config) : config \in KeywordConfigs}
    /\ group_only \in BOOLEAN
    /\ triggered_event_ids = {}
    /\ registry = HomeRegistry
    /\ queue = <<>>
    /\ inbox \in InboundEvents
    /\ request = None
    /\ run = Idle
    /\ made = NotMade
    /\ tally = NoTally

\* The answers a collaborator may give when the run gets as far as asking it
AsFarAs(reached, S, default) == IF reached THEN S ELSE {default}

\* The call of create_event at lines 167-174 binds
CallBinds == Binds(create_event_params, create_event_required, call_kwargs)


\* One run of on_message on the inbound event.  The handler has no await: it runs
\* to completion.
on_message ==
    LET g == Guards(inbox, group_only)
    IN  /\ inbox # None
        /\ inbox' = None
        /\ IF g.outcome # "pass"
           THEN run' = g /\ queue' = queue
           ELSE \E order \in IterationOrders(keywords) :
                LET m == Matching(g, order)
                IN  IF m.outcome # "matched"
                    THEN run' = m /\ queue' = queue
                    ELSE \E admin \in AdminAnswers :
                         \E sid \in AsFarAs(~Escapes(admin), SenderIdAnswers, Raise("none")) :
                         \E sname \in AsFarAs(sid.kind = "ret", SenderNameAnswers, Absent) :
                         \E put \in AsFarAs(sid.kind = "ret" /\ CallBinds, PutAnswers, Ret(None)),
                            now \in AsFarAs(sid.kind = "ret" /\ CallBinds, Clock, 0),
                            ctor \in AsFarAs(sid.kind = "ret" /\ CallBinds, CtorAnswers, "ok") :
                         LET d == Dispatch(m, registry, admin, sid, sname, put, now, ctor)
                         IN  /\ run' = d
                             /\ queue' = IF d.outcome = "dispatched"
                                         THEN Append(queue, d.new_event)
                                         ELSE queue
        /\ tally' = [tally EXCEPT !.external = @ + (IF IsSynthesized(inbox) THEN 0 ELSE 1),
                                  !.enqueued = @ + (Len(queue') - Len(queue))]
        /\ UNCHANGED <<keywords, group_only, triggered_event_ids, registry, request, made>>

Next == on_message

Spec == Init /\ [][Next]_vars

----------------------------------------------------------------------------
(* EventFactory.create_event called on its own *)

\* The sender on whose behalf create_event is called
Senders ==
    {[id |-> PyI(42), name |-> n, is_admin |-> a] : n \in {PyS(<<"Al">>), None}, a \in BOOLEAN}

\* The non-text segments the caller has extracted from the original message
\* (main.py:148) when it calls create_event
MentionLists == {<<>>, <<At(1), At(2)>>}

\* What the caller holds when it calls create_event: the sender, the origin
\* token, the rewritten command and the extracted segments; now and ctor are the
\* clock's and the host constructors' answers during the call
Request(sender, unified_msg_origin, command, original_components, now, ctor) ==
    [sender |-> sender, unified_msg_origin |-> unified_msg_origin, command |-> command,
     original_components |-> original_components, now |-> now, ctor |-> ctor]

\* The call create_event(unified_msg_origin, command, str(sender id), sender name):
\* the four parameters of line 29 are all the factory can be given
create_event_call ==
    /\ request # None
    /\ request' = None
    /\ made' = [called |-> TRUE, request |-> request]
               @@ create_event(registry, request.unified_msg_origin, request.command,
                               PyStr(request.sender.id), request.sender.name,
                               request.now, request.ctor)
    /\ UNCHANGED <<keywords, group_only, triggered_event_ids, registry, queue, inbox, run, tally>>

\* The plugin the factory belongs to, at rest
PluginAtRest ==
    /\ keywords = {<<"a">>}
    /\ group_only = TRUE
    /\ triggered_event_ids = {}
    /\ queue = <<>>
    /\ inbox = None
    /\ run = Idle
    /\ made = NotMade
    /\ tally = NoTally

(* Origin tokens of every shape, few platforms *)

OriginAlphabet == {":", "GroupMessage", "FriendMessage", "bot1", "aiocqhttp", "_"}
Origins == SeqsUpTo(OriginAlphabet, MaxOriginLen)

ParseInit ==
    /\ PluginAtRest
    /\ registry \in {EmptyRegistry, HomeRegistry}
    /\ request \in {Request([id |-> PyI(42), name |-> PyS(<<"Al">>), is_admin |-> FALSE],
                            o, <<"/", "a">>, <<>>, 0, "ok") : o \in Origins}

ParseNext == create_event_call

ParseSpec == ParseInit /\ [][ParseNext]_vars

(* Platforms of every type and shape, few origin tokens *)

PlatformTypes ==
    {"aiocqhttp", "qq_official", "telegram", "discord", "slack", "lark", "wechatpadpro",
     "webchat", "dingtalk", "kook"}

\* The attribute the builder of type T asks the platform for
Capability(T) ==
    CASE T \in {"aiocqhttp", "lark"} -> "bot"
      [] T = "slack" -> "web_client"
      [] OTHER -> "client"

\* The client handle of the platform the user named bot1, and the handle of the
\* platform registered under the type label
Handle(T) == [a \in {Capability(T)} |-> "handle"]
LabelHandle(T) == [a \in {Capability(T)} |-> "label.handle"]

\* The public non-callable attributes a platform of type T may carry
AttrProfiles(T) ==
    {NoAttrs,
     Handle(T),
     Handle(T) @@ [client_self_id |-> PyI(10)],
     [session_id |-> <<"other">>, client_self_id |-> PyI(0)],
     Handle(T) @@ [session_id |-> <<"other">>, is_wake |-> FALSE]}

Metas(T) == {Meta(PyS(<<T>>)), Meta(Absent), Raise("RuntimeError"), Absent}

\* What the registry may answer for the user's name bot1, and for the type label
NamedEntries(T) ==
    {None, Raise("RuntimeError")}
    \cup {Platform(m, a) : m \in Metas(T), a \in AttrProfiles(T)}

LabelEntries(T) ==
    {None, Raise("RuntimeError"), Platform(Meta(PyS(<<T>>)), NoAttrs),
     Platform(Meta(PyS(<<T>>)), LabelHandle(T))}

Registries ==
    UNION {{[k \in {<<"bot1">>, <<T>>} |-> IF k = <<"bot1">> THEN n ELSE l] :
               n \in NamedEntries(T), l \in LabelEntries(T)} : T \in PlatformTypes}

FactoryOrigins ==
    {<<"bot1", ":", "GroupMessage", ":", "g1", "_", "u1">>,
     <<"aiocqhttp", ":", "FriendMessage", ":", "u1">>,
     <<"telegram", ":", "GroupMessage">>,
     <<"bot1">>}

FactoryInit ==
    /\ PluginAtRest
    /\ registry \in Registries
    /\ request \in {Request(s, o, <<"/", "a">>, oc, now, ctor) :
                       s \in Senders, o \in FactoryOrigins, oc \in MentionLists,
                       now \in Clock, ctor \in CtorAnswers}

FactoryNext == create_event_call

FactorySpec == FactoryInit /\ [][FactoryNext]_vars

----------------------------------------------------------------------------
(* The plugin and its factory under the host's queue and dispatch loop *)

\* The messages the adapters commit, in a group: the text matching a keyword or
\* not, and a matching text under an id that begins with the reserved prefix
LoopEvents ==
    {Inbound(x[1], PyI(42), x[2], [present |-> FALSE, chain |-> <<>>]) :
        x \in {<<PyI(7), <<"a">>>>, <<PyI(7), <<"b">>>>,
                <<PyS(<<"command_trigger_", "7">>), <<"a">>>>}}

\* An adapter commits a message to the host's queue
commit_event ==
    /\ tally.committed < MaxExternal
    /\ \E e \in LoopEvents : queue' = Append(queue, e)
    /\ tally' = [tally EXCEPT !.committed = @ + 1]
    /\ UNCHANGED <<keywords, group_only, triggered_event_ids, registry, inbox, request, run, made>>

\* The attributes of a queued event as on_message's helpers read them: those of
\* an adapter's message as they are, those of an event of EventFactory as the
\* Python values create_event and _create_message_object have set
Presented(e) ==
    IF IsSynthesized(e)
    THEN LET msg == e.message_obj
             names == {"message_id", "message"}
                      \cup (IF "group_id" \in DOMAIN msg THEN {"group_id"} ELSE {})
         IN  [cls |-> e.cls,
              message_obj |-> [n \in names |-> CASE n = "message_id" -> PyS(msg.message_id)
                                                 [] n = "group_id" -> PyS(msg.group_id)
                                                 [] n = "message" -> msg.message],
              message_str |-> PyS(e.message_str)]
    ELSE e

\* The host's dispatch loop takes the next event off the queue and hands it to
\* the handlers registered for all messages (main.py:109)
dispatch_event ==
    /\ inbox = None
    /\ queue # <<>>
    /\ inbox' = Presented(Head(queue))
    /\ queue' = Tail(queue)
    /\ UNCHANGED <<keywords, group_only, triggered_event_ids, registry, request, run, made, tally>>

\* The event create_event returned is put on the host's queue (main.py:177)
put_nowait ==
    /\ made.called
    /\ tally.resubmitted = 0
    /\ queue' = Append(queue, made.event)
    /\ tally' = [tally EXCEPT !.resubmitted = 1]
    /\ UNCHANGED <<keywords, group_only, triggered_event_ids, registry, inbox, request, run, made>>

\* A factory call for a sender in a group of bot1; the command is a text that is
\* itself a keyword, so that only its message id tells the event from a trigger
LoopRequests ==
    {Request([id |-> PyI(42), name |-> PyS(<<"Al">>), is_admin |-> FALSE],
             <<"bot1", ":", "GroupMessage", ":", "g1", "_", "u1">>, <<"a">>, <<>>, now, ctor) :
        now \in {0, MaxClock}, ctor \in CtorAnswers}

\* Two configurations: two clean keywords, one of them command-like; and a
\* blank item, a padded keyword and a non-string
LoopConfigs ==
    {<<PyS(<<"a">>), PyS(<<"/", "a">>)>>,
     <<PyS(<<" ">>), PyS(<<" ", "a", " ">>), PyI(7)>>}

LoopInit ==
    /\ keywords \in {_parse_keywords(config) : config \in LoopConfigs}
    /\ group_only \in BOOLEAN
    /\ triggered_event_ids = {}
    /\ registry = HomeRegistry
    /\ queue = <<>>
    /\ inbox = None
    /\ request \in LoopRequests
    /\ run = Idle
    /\ made = NotMade
    /\ tally = NoTally

LoopNext ==
    \/ commit_event
    \/ dispatch_event
    \/ on_message
    \/ create_event_call
    \/ put_nowait

\* A run of on_message seen on inbox alone: the event handed over is consumed.
\* on_message is enabled exactly when an event is handed over, and it is the
\* only action that consumes it.
Handling == inbox # None /\ inbox' = None

\* The host's loop keeps taking events off the queue, and a handler it awaits
\* (on_message has no await of its own) runs to its end
LoopSpec ==
    /\ LoopInit
    /\ [][LoopNext]_vars
    /\ WF_vars(dispatch_event)
    /\ WF_inbox(Handling)

----------------------------------------------------------------------------
(* Properties of one run of on_message, checked under Spec *)

Handled == run.outcome # "idle"

\* The inbound event's message id is a string that begins with the reserved prefix
CarriesTriggerPrefix(event) ==
    /\ "message_id" \in DOMAIN event.message_obj
    /\ event.message_obj["message_id"].kind = "str"
    /\ Len(event.message_obj["message_id"].v) >= 1
    /\ event.message_obj["message_id"].v[1] = "command_trigger_"

\* The keywords the text begins with (or equals)
PrefixesOf(text) == {k \in keywords : Len(k) <= Len(text) /\ \A i \in 1..Len(k) : k[i] = text[i]}

Called(step) == \E i \in 1..Len(run.steps) : run.steps[i] = step

\* Nothing was synthesized: no event built, none enqueued, the original not stopped
NoResynthesis ==
    /\ ~Called("create_event")
    /\ ~Called("put_nowait")
    /\ ~Called("stop_event")
    /\ run.new_event = None
    /\ queue = <<>>
    /\ ~run.stopped

\* C1: a run on an event whose message id starts with "command_trigger_" returns
\* right after reading the message id: no text extraction, no matching, no event
\* creation, no enqueue and no stop_event, whatever the keywords and group_only.
C1_LoopGuardFirst ==
    (Handled /\ CarriesTriggerPrefix(run.event)) =>
        /\ run.steps = <<"_get_message_id">>
        /\ run.outcome = "skip_synthetic"
        /\ run.matched_keyword = None
        /\ NoResynthesis

\* A synthetic event whose text a keyword prefixes, with a group, was skipped
C1_Witness ==
    /\ Handled
    /\ CarriesTriggerPrefix(run.event)
    /\ PrefixesOf(_get_plain_text(run.event)) # {}
    /\ _get_group_id(run.event) # <<>>
    /\ run.outcome = "skip_synthetic"

\* C2: a run on a non-synthetic message that passes the guards, whose text starts
\* with a keyword, and whose collaborators all answer (the sink accepts), ends
\* with exactly one event enqueued, carrying "/" + text, and the original stopped.
C2_MatchDispatchesOnce ==
    (/\ Handled
     /\ run.matched_keyword # None
     /\ run.escaped = None
     /\ run.error \notin {PyS(<<"RuntimeError">>), PyS(<<"QueueFull">>)}) =>
        /\ Len(queue) = 1
        /\ queue[1].message_str = <<"/">> \o run.text
        /\ run.stopped

\* C3: the matched keyword is the longest keyword that is a prefix of the text
\* (or equals it), and none is matched when no keyword is a prefix, in whatever
\* order the keyword set is visited.
C3_LongestMatchWins ==
    (Handled /\ Called("match")) =>
        IF PrefixesOf(run.text) = {}
        THEN run.matched_keyword = None /\ run.outcome = "no_match"
        ELSE /\ run.matched_keyword.kind = "str"
             /\ run.matched_keyword.v \in PrefixesOf(run.text)
             /\ \A k \in PrefixesOf(run.text) : Len(k) <= Len(run.matched_keyword.v)

\* Two keywords prefix the text and the longer one was matched
C3_Witness ==
    /\ Handled
    /\ Called("match")
    /\ Cardinality(PrefixesOf(run.text)) >= 2
    /\ run.matched_keyword # None
    /\ \E k \in PrefixesOf(run.text) : Len(k) < Len(run.matched_keyword.v)

\* C4: on a match the command is "/" + keyword + the remainder of the text, which
\* is "/" + text; when the text is the keyword the command is "/" + keyword.
C4_CommandIsSlashText ==
    (Handled /\ run.new_command # None) =>
        LET kw == run.matched_keyword.v
            cmd == run.new_command.v
            n == Len(run.text) - Len(kw)
        IN  /\ n >= 0
            /\ cmd = <<"/">> \o run.text
            /\ Len(cmd) = 1 + Len(kw) + n
            /\ \A i \in 1..Len(kw) : cmd[1 + i] = kw[i]
            /\ \A i \in 1..n : cmd[1 + Len(kw) + i] = run.text[Len(kw) + i]
            /\ (run.text = kw => cmd = <<"/">> \o kw)

\* A command was built from a text whose remainder after the keyword begins with
\* a blank
C4_Witness ==
    /\ Handled
    /\ run.new_command # None
    /\ Len(run.text) > Len(run.matched_keyword.v)
    /\ run.text[Len(run.matched_keyword.v) + 1] = " "

\* C5: a message whose text begins with "/" or "#" never triggers resynthesis,
\* also when a keyword begins with "/" or "#".
C5_CommandTextNeverMatches ==
    (/\ Handled
     /\ LET text == _get_plain_text(run.event)
        IN  text # <<>> /\ text[1] \in {"/", "#"}) =>
        /\ run.matched_keyword = None
        /\ ~Called("match")
        /\ NoResynthesis

\* A text a command-like keyword prefixes was skipped
C5_Witness ==
    /\ Handled
    /\ run.outcome = "skip_command"
    /\ PrefixesOf(run.text) # {}

\* The event has no resolvable group id: missing, empty or falsy
NoGroup(event) ==
    \/ "group_id" \notin DOMAIN event.message_obj
    \/ event.message_obj["group_id"] \in {None, PyS(<<>>), PyI(0)}

\* C6: with enable_group_only, a message without a resolvable group id never
\* causes an event to be created or enqueued; without it the group id is not
\* read and the match is decided by the text and the keywords alone.
C6_GroupOnly ==
    /\ (Handled /\ group_only /\ NoGroup(run.event)) =>
           /\ run.matched_keyword = None
           /\ NoResynthesis
    /\ (Handled /\ ~group_only) =>
           /\ ~Called("_get_group_id")
           /\ run.outcome # "skip_group"
           /\ (run.outcome \notin {"skip_synthetic", "skip_empty", "skip_command"} =>
                  ((run.matched_keyword # None) <=> (PrefixesOf(run.text) # {})))

\* In group-only mode a groupless message whose text a keyword prefixes was dropped
C6_Witness ==
    /\ Handled
    /\ group_only
    /\ NoGroup(run.event)
    /\ run.outcome = "skip_group"
    /\ PrefixesOf(run.text) # {}

\* How many times the run took the step
CountOf(step) == Cardinality({i \in 1..Len(run.steps) : run.steps[i] = step})

\* C12: when a keyword matched and event creation or put_nowait then fails, the
\* failure is logged, the synthesized message is dropped without a retry, and the
\* original message's propagation is still stopped.
C12_FailureStillStops ==
    (Handled /\ run.matched_keyword # None /\ Called("create_event") /\ run.error # None) =>
        /\ CountOf("logger.error") = 1
        /\ queue = <<>>
        /\ CountOf("create_event") = 1
        /\ CountOf("put_nowait") <= 1
        /\ run.stopped

\* C13: no exception leaves on_message, whatever the inbound event and whichever
\* collaborator fails: the run ends by skipping the message or by dispatching.
C13_NothingEscapesOnMessage ==
    Handled =>
        /\ run.escaped = None
        /\ run.outcome \in {"skip_synthetic", "skip_empty", "skip_command", "skip_group",
                            "no_match", "failed", "dispatched"}

\* The places of a step in the run
StepsOf(step) == {i \in 1..Len(run.steps) : run.steps[i] = step}

\* C22: a run of on_message calls create_event at most once and put_nowait at
\* most once; after a failure it only logs and returns, with no second attempt;
\* and it returns without the enqueued event having been taken off the queue.
C22_AtMostOneAttempt ==
    Handled =>
        /\ Cardinality(StepsOf("create_event")) <= 1
        /\ Cardinality(StepsOf("put_nowait")) <= 1
        /\ (run.error # None =>
               /\ StepsOf("logger.error") = {Len(run.steps)}
               /\ run.outcome = "failed")
        /\ (run.error = None => StepsOf("logger.error") = {})
        /\ inbox = None
        /\ Len(queue) = IF run.error = None THEN Cardinality(StepsOf("put_nowait")) ELSE 0

\* The one call of create_event failed, was logged, and the run ended there
C22_Witness ==
    /\ Handled
    /\ Cardinality(StepsOf("create_event")) = 1
    /\ run.error # None
    /\ run.steps[Len(run.steps)] = "logger.error"
    /\ run.steps[Len(run.steps) - 1] = "create_event"

\* C24: a run calls stop_event at most once and only after put_nowait has
\* returned normally; never for a message a guard skipped, that matched no
\* keyword, or whose dispatch failed.
C24_StopOnlyAfterPut ==
    Handled =>
        /\ Cardinality(StepsOf("stop_event")) <= 1
        /\ (run.stopped <=> StepsOf("stop_event") # {})
        /\ \A j \in StepsOf("stop_event") :
               /\ \E i \in StepsOf("put_nowait") : i < j
               /\ run.error = None
               /\ run.outcome = "dispatched"
               /\ Len(queue) = 1
        /\ (run.outcome # "dispatched" => ~run.stopped)

\* A message matched a keyword, its dispatch failed before put_nowait, and the
\* original was left to propagate
C24_Witness ==
    /\ Handled
    /\ run.matched_keyword # None
    /\ run.outcome = "failed"
    /\ StepsOf("put_nowait") = {}
    /\ queue = <<>>
    /\ ~run.stopped

----------------------------------------------------------------------------
(* Properties of create_event's origin parsing, checked under ParseSpec *)

ColonsOf(s) == {i \in 1..Len(s) : s[i] = ":"}
FirstColon(s) == CHOOSE i \in ColonsOf(s) : \A j \in ColonsOf(s) : i <= j
SecondColon(s) ==
    CHOOSE i \in ColonsOf(s) \ {FirstColon(s)} : \A j \in ColonsOf(s) \ {FirstColon(s)} : i <= j

\* The kind field of a token of three parts or more names neither marker
NoMarker(s) ==
    \A i \in (FirstColon(s) + 1)..(SecondColon(s) - 1) : s[i] \notin {"GroupMessage", "FriendMessage"}

\* C7: create_event returns for every origin token; with fewer than three
\* colon-separated parts the descriptor is ("unknown", "unknown", FRIEND_MESSAGE),
\* and with three or more and no marker in the kind field the kind is FRIEND_MESSAGE.
C7_ParseNeverFails ==
    made.called =>
        LET token == made.request.unified_msg_origin
        IN  /\ made.event # None
            /\ made.msg.session_id = made.session_id
            /\ made.msg.type = made.message_type
            /\ made.meta.id = made.platform_id
            /\ (Cardinality(ColonsOf(token)) < 2 =>
                   /\ made.platform_id = <<"unknown">>
                   /\ made.session_id = <<"unknown">>
                   /\ made.message_type = FRIEND_MESSAGE)
            /\ (Cardinality(ColonsOf(token)) >= 2 /\ NoMarker(token) =>
                   made.message_type = FRIEND_MESSAGE)

\* A token of exactly two non-empty parts, the second naming the group marker,
\* was parsed to the sentinel
C7_Witness ==
    /\ made.called
    /\ Cardinality(ColonsOf(made.request.unified_msg_origin)) = 1
    /\ made.request.unified_msg_origin[Len(made.request.unified_msg_origin)] = "GroupMessage"
    /\ made.request.unified_msg_origin[1] = "bot1"
    /\ made.platform_id = <<"unknown">>
    /\ made.message_type = FRIEND_MESSAGE

\* C8: for a token of three parts or more the platform id is the text before the
\* first colon and the conversation id is everything after the second colon,
\* further colons included.
C8_ConversationIdKeepsColons ==
    (made.called /\ Cardinality(ColonsOf(made.request.unified_msg_origin)) >= 2) =>
        LET token == made.request.unified_msg_origin
        IN  /\ made.platform_id = SubSeq(token, 1, FirstColon(token) - 1)
            /\ made.session_id = SubSeq(token, SecondColon(token) + 1, Len(token))
            /\ made.msg.session_id = made.session_id
            /\ made.meta.id = made.platform_id

\* A conversation id with a colon between two other atoms was kept whole
C8_Witness ==
    /\ made.called
    /\ Cardinality(ColonsOf(made.request.unified_msg_origin)) >= 3
    /\ Len(made.session_id) = 3
    /\ made.session_id[2] = ":"
    /\ made.session_id[1] # ":"
    /\ made.session_id[3] # ":"

\* The places of the session-isolation separator in a conversation id
UnderscoresOf(s) == {i \in 1..Len(s) : s[i] = "_"}

\* C21: for a GROUP conversation the envelope's group id is the conversation id
\* up to its first "_" (the whole of it when it has none) and the raw mirror's
\* group_id equals it; for a DIRECT conversation neither the envelope nor the
\* raw mirror has a group id and the raw mirror is tagged "private".
C21_GroupIdDerivation ==
    made.called =>
        LET sid == made.session_id
            raw == made.msg.raw_message
        IN  IF made.message_type = GROUP_MESSAGE
            THEN /\ "group_id" \in DOMAIN made.msg
                 /\ \A i \in UnderscoresOf(sid) :
                        (\A j \in UnderscoresOf(sid) : i <= j) =>
                            made.msg.group_id = SubSeq(sid, 1, i - 1)
                 /\ (UnderscoresOf(sid) = {} => made.msg.group_id = sid)
                 /\ "group_id" \in DOMAIN raw
                 /\ raw.group_id = made.msg.group_id
                 /\ raw.message_type = "group"
            ELSE /\ "group_id" \notin DOMAIN made.msg
                 /\ "group_id" \notin DOMAIN raw
                 /\ raw.message_type = "private"

\* A group conversation id with an atom before its separator gave that atom as
\* the group id
C21_Witness ==
    /\ made.called
    /\ made.message_type = GROUP_MESSAGE
    /\ Len(made.session_id) = 2
    /\ made.session_id[2] = "_"
    /\ made.session_id[1] \notin {"_", ":"}
    /\ made.msg.group_id = <<made.session_id[1]>>

----------------------------------------------------------------------------
(* Properties of the event create_event returns, checked under FactorySpec *)

SpecificTypes == PlatformTypes \ {"kook"}

\* The platform the builder of type T looks up, and whether its specific
\* construction fails: lookup raises or finds nothing, capability missing, or the
\* import or constructor raises
LookedUp(T) ==
    IF T = "aiocqhttp" THEN get_platform_inst(registry, made.meta.id)
    ELSE get_platform_inst(registry, <<T>>)

SpecificFails(T) ==
    CASE T = "webchat" -> made.request.ctor = "raises"
      [] T = "wechatpadpro" -> LookedUp(T).kind # "platform" \/ made.request.ctor = "raises"
      [] OTHER -> \/ LookedUp(T).kind # "platform"
                  \/ Capability(T) \notin DOMAIN LookedUp(T).attrs
                  \/ made.request.ctor = "raises"

\* C9: when the specific construction of a platform type fails, the builder
\* returns the generic event carrying the supplied command, session id and
\* message envelope (sender id, display name, conversation routing).
C9_FallbackCarriesSupplied ==
    \A T \in SpecificTypes :
        (made.called /\ made.platform_type = <<T>> /\ SpecificFails(T)) =>
            /\ made.built # None
            /\ made.built.cls = "AstrMessageEvent"
            /\ made.built.message_str = made.request.command
            /\ made.built.session_id = made.session_id
            /\ made.built.message_obj = made.msg
            /\ made.msg.sender.user_id = PyStr(made.request.sender.id)
            /\ made.msg.sender.nickname = OrDefaultName(made.request.sender.name)

\* C10: the returned event's accessors answer with the caller's values:
\* get_sender_id() the sender id, get_sender_name() the display name, and
\* is_admin() the privilege flag of the original sender.
C10_AccessorsAnswerForSender ==
    made.called =>
        /\ made.event.get_sender_id = PyStr(made.request.sender.id)
        /\ (made.request.sender.name # None =>
               made.event.get_sender_name = made.request.sender.name.v)
        /\ made.event.is_admin = made.request.sender.is_admin

\* C11: the content segments of the synthesized envelope are the one text segment
\* holding the command, followed by the non-text (At) segments extracted from the
\* original message, in their original order.
C11_MentionPassthrough ==
    made.called =>
        made.msg.message = <<Plain(made.request.command)>> \o made.request.original_components

\* The determinable self identifier of a platform context: its client_self_id
\* when the attribute is there, truthy and a string or an integer
SelfIdOf(ctx) ==
    IF /\ ctx.kind = "platform"
       /\ "client_self_id" \in DOMAIN ctx.attrs
       /\ ctx.attrs["client_self_id"].kind \in {"str", "int"}
       /\ ctx.attrs["client_self_id"] \notin {PyS(<<>>), PyI(0)}
    THEN PyStr(ctx.attrs["client_self_id"])
    ELSE <<>>

\* C14: the envelope's self_id, mirrored in raw_message, is the context's own
\* client_self_id when determinable and the empty string otherwise; never a
\* placeholder identifier.
C14_SelfIdOrEmpty ==
    made.called =>
        /\ made.msg.self_id = SelfIdOf(made.platform_instance)
        /\ made.msg.raw_message.self_id = made.msg.self_id
        /\ made.msg.self_id # <<"123456789">>

\* The host's lookup under key throws or returns nothing
LookupFails(key) == get_platform_inst(registry, key).kind \in {"none", "raise"}

\* The fields through which an event holds a live connection
ConnectionFields == {"bot", "client", "web_client", "adapter", "platform_instance"}

\* C15: _get_platform_instance never raises and answers None when the host's
\* lookup throws or returns nothing; create_event then still returns an event,
\* carrying the command and the envelope, and with every lookup failing the event
\* holds no live connection.
C15_LookupFailureIsAbsent ==
    made.called =>
        /\ \A key \in {made.platform_id, made.platform_type} :
               /\ _get_platform_instance(registry, key).kind # "raise"
               /\ (LookupFails(key) => _get_platform_instance(registry, key) = None)
        /\ (LookupFails(made.platform_id) =>
               /\ made.platform_instance = None
               /\ made.event # None
               /\ made.event.message_str = made.request.command
               /\ made.event.message_obj = made.msg
               /\ made.event.session_id = made.session_id)
        /\ (LookupFails(made.platform_id) /\ LookupFails(made.platform_type) =>
               DOMAIN made.built \cap ConnectionFields = {})

\* The host's lookup of the user's platform name threw, and the generic event was
\* returned without a platform reference
C15_Witness ==
    /\ made.called
    /\ made.platform_id = <<"bot1">>
    /\ get_platform_inst(registry, made.platform_id).kind = "raise"
    /\ made.platform_instance = None
    /\ made.built.cls = "AstrMessageEvent"
    /\ "platform_instance" \notin DOMAIN made.built

\* The event class of the specific variant of type T, and the constructor keyword
\* that takes the client handle
VariantClass(T) ==
    CASE T = "aiocqhttp" -> "AiocqhttpMessageEvent"
      [] T = "qq_official" -> "QQOfficialMessageEvent"
      [] T = "telegram" -> "TelegramPlatformEvent"
      [] T = "discord" -> "DiscordPlatformEvent"
      [] T = "slack" -> "SlackMessageEvent"
      [] T = "lark" -> "LarkMessageEvent"
      [] T = "wechatpadpro" -> "WeChatPadProMessageEvent"
      [] T = "webchat" -> "WebChatMessageEvent"
      [] T = "dingtalk" -> "DingtalkMessageEvent"

HandleField(T) ==
    CASE T \in {"aiocqhttp", "qq_official", "lark"} -> "bot"
      [] T = "slack" -> "web_client"
      [] T = "wechatpadpro" -> "adapter"
      [] OTHER -> "client"

\* The context resolved by the origin's platform id can serve the variant of type T
Serves(ctx, T) ==
    /\ ctx.kind = "platform"
    /\ (T = "wechatpadpro" \/ Capability(T) \in DOMAIN ctx.attrs)

\* C17: the handle injected into a specific variant comes from the context
\* registered under the origin's platform id, and whenever that context exposes
\* the capability of a type with a specific variant, the variant is constructed.
C17_HandleFromNamedContext ==
    \A T \in SpecificTypes \ {"webchat"} :
        (made.called /\ made.platform_type = <<T>>) =>
            LET ctx == made.platform_instance
            IN  /\ (made.built.cls = VariantClass(T) =>
                       /\ Serves(ctx, T)
                       /\ made.built[HandleField(T)] =
                              IF T = "wechatpadpro" THEN ctx ELSE ctx.attrs[Capability(T)])
                /\ (Serves(ctx, T) /\ made.request.ctor = "ok" =>
                       made.built.cls = VariantClass(T))

\* C18: a generic event has is_wake and is_at_or_wake_command set and keeps the
\* command, envelope, session id and origin token it was constructed with,
\* whatever attributes the platform context carries.
C18_BaseEventKeepsItsFields ==
    (made.called /\ made.built.cls = "AstrMessageEvent") =>
        /\ made.built.is_wake = TRUE
        /\ made.built.is_at_or_wake_command = TRUE
        /\ made.built.message_str = made.request.command
        /\ made.built.message_obj = made.msg
        /\ made.built.session_id = made.session_id
        /\ made.built.unified_msg_origin =
               made.meta.name \o <<":">> \o MessageTypeValue(made.message_type) \o <<":">>
                   \o made.session_id

\* C19: for a well-formed inbound origin token the generic event's origin token
\* is the inbound token: same platform id, kind and conversation id.
C19_SameConversation ==
    (/\ made.called
     /\ Cardinality(ColonsOf(made.request.unified_msg_origin)) >= 2
     /\ made.built.cls = "AstrMessageEvent") =>
        made.built.unified_msg_origin = made.request.unified_msg_origin

\* The alias table applied to a platform id
Alias(platform_id) ==
    IF platform_id \in DOMAIN platform_mapping THEN platform_mapping[platform_id] ELSE platform_id

\* C20: the platform type is the resolved context's declared type name when it
\* declares one, otherwise the alias of the parsed platform id; the sentinel
\* descriptor with no context gives type "unknown" and the generic event.
C20_PlatformTypeSelection ==
    made.called =>
        LET ctx == made.platform_instance
            declares == /\ ctx.kind = "platform"
                        /\ ctx.meta.kind = "meta"
                        /\ ctx.meta.name.kind = "str"
        IN  /\ (declares => made.platform_type = ctx.meta.name.v)
            /\ (~declares => made.platform_type = Alias(made.platform_id))
            /\ (made.platform_id = <<"unknown">> /\ ctx = None =>
                   /\ made.platform_type = <<"unknown">>
                   /\ made.built.cls = "AstrMessageEvent")

----------------------------------------------------------------------------
(* Properties of the plugin under the host's queue, checked under LoopSpec *)

\* The message id is the reserved prefix followed by decimal digits
IsSyntheticId(message_id) ==
    /\ Len(message_id) >= 2
    /\ message_id[1] = "command_trigger_"
    /\ \A i \in 2..Len(message_id) : message_id[i] \in {Digit(d) : d \in 0..9}

\* Every event of EventFactory carries the reserved prefix; a run of on_message
\* on such an event stops at the loop guard and synthesizes nothing; on_message
\* has enqueued no more events than it has handled external messages
LoopSafe ==
    /\ (made.called => IsSyntheticId(made.event.message_obj.message_id))
    /\ \A i \in 1..Len(queue) :
           IsSynthesized(queue[i]) => IsSyntheticId(queue[i].message_obj.message_id)
    /\ (Handled /\ IsSynthesized(run.event) =>
           /\ run.outcome = "skip_synthetic"
           /\ run.steps = <<"_get_message_id">>
           /\ run.new_event = None
           /\ ~run.stopped)
    /\ tally.enqueued <= tally.external
    /\ tally.external <= tally.committed

\* C16: events of EventFactory carry the reserved message-id prefix, so fed back
\* into on_message through the queue they produce no further event; the events
\* on_message has enqueued never outnumber the external messages it has handled,
\* and the queue eventually drains.
C16_LoopFreedom == []LoopSafe /\ ((queue # <<>>) ~> (queue = <<>>))

\* An event of EventFactory whose text is itself a keyword came back through the
\* queue after an external message was handled, was skipped, and the queue is empty
C16_Witness ==
    /\ Handled
    /\ IsSynthesized(run.event)
    /\ run.event.message_str = PyS(<<"a">>)
    /\ run.outcome = "skip_synthetic"
    /\ tally.external >= 1
    /\ tally.resubmitted = 1
    /\ queue = <<>>
    /\ inbox = None

\* No keyword is empty or made of blanks only
KeywordsClean == \A k \in keywords : \E i \in 1..Len(k) : k[i] # " "

\* C23: message handling leaves the plugin's long-lived state alone: through any
\* sequence of runs of on_message the keyword set and group_only keep the values
\* they had at construction, no keyword is empty or blank, and
\* triggered_event_ids stays empty.
C23_PluginStateUnchanged ==
    /\ [](KeywordsClean /\ triggered_event_ids = {})
    /\ [][/\ keywords' = keywords
          /\ group_only' = group_only
          /\ triggered_event_ids' = triggered_event_ids]_vars

\* Two external messages have been handled, the last one matching the keyword
\* parsed from the padded item of a configuration that also had a blank item
C23_Witness ==
    /\ tally.external >= 2
    /\ keywords = {<<"a">>}
    /\ Handled
    /\ ~IsSynthesized(run.event)
    /\ run.matched_keyword = PyS(<<"a">>)
    /\ triggered_event_ids = {}

====
